---- MODULE Spec2Model ----
(***************************************************************************)
(* ollama-shim: an authenticating reverse proxy in front of an Ollama      *)
(* service.  The model covers the request pipeline of src/proxy.rs         *)
(* (proxy_handler, forward_request), the shared AppState of src/state.rs   *)
(* and the key-source resolution of src/config.rs as driven by main().     *)
(*                                                                         *)
(* Text is modelled as a sequence of byte codes (<<71, 69, 84>> is "GET"), *)
(* so that prefix stripping, trimming, splitting and the text/non-text     *)
(* distinction of header values are computed as the code computes them.    *)
(* A body is a record [len, data]: its size in bytes and its content.      *)
(***************************************************************************)
EXTENDS Integers, Sequences, FiniteSets, TLC

VARIABLES
    state,      \* AppState shared by all handlers: [valid_keys, ollama_url], or NotBuilt
    pc,         \* per request slot: position of its proxy_handler task
    req,        \* per slot: the inbound request, or NoReq
    stream,     \* per slot: "pending", or how the inbound body stream ended
    out,        \* per slot: the outbound request handed to the client, or NoOut
    calls,      \* per slot: number of outbound network calls issued
    reply,      \* per slot: what req.send() resolved to, or NoReply
    resp,       \* per slot: the client-facing response, or NoResp
    nresp,      \* per slot: number of client-facing responses produced
    env,        \* process environment read by AppConfig::load
    overrides,  \* ConfigOverrides built by main from the command line
    cfg,        \* AppConfig held by main, or NoCfg
    mainpc      \* position of main()

vars == <<state, pc, req, stream, out, calls, reply, resp, nresp, env, overrides, cfg, mainpc>>
proxyVars == <<pc, req, stream, out, calls, reply, resp, nresp>>
configVars == <<env, overrides, cfg, mainpc>>

-----------------------------------------------------------------------------
(* Bounds of the model *)

\* concurrent request slots of the concurrent specification
NumRequests == 2
\* longest inbound header list
MaxHeaders == 2
\* longest upstream response header list
MaxRespHeaders == 1

-----------------------------------------------------------------------------
(* Option / Result values *)

None == [some |-> FALSE]
Some(x) == [some |-> TRUE, val |-> x]
Err == [ok |-> FALSE]
Ok(x) == [ok |-> TRUE, val |-> x]

NotBuilt == [built |-> FALSE]
NoReq == [present |-> FALSE]
NoOut == [sent |-> FALSE]
NoReply == [kind |-> "none"]
NoResp == [status |-> 0]
NoCfg == [loaded |-> FALSE]

-----------------------------------------------------------------------------
(* Text helpers (std::str) *)

StartsWith(s, p) == Len(s) >= Len(p) /\ SubSeq(s, 1, Len(p)) = p

\* str::strip_prefix
strip_prefix(s, p) ==
    IF StartsWith(s, p) THEN Some(SubSeq(s, Len(p) + 1, Len(s))) ELSE None

\* str::trim_end_matches(c): drop every trailing occurrence of byte c
RECURSIVE trim_end_matches(_, _)
trim_end_matches(s, c) ==
    IF Len(s) > 0 /\ s[Len(s)] = c
    THEN trim_end_matches(SubSeq(s, 1, Len(s) - 1), c)
    ELSE s

\* Vec<String>::contains: exact, case-sensitive equality with some element
contains(v, x) == \E i \in 1..Len(v) : v[i] = x

-----------------------------------------------------------------------------
(* http::HeaderValue / HeaderMap *)

\* bytes a HeaderValue may hold: tab, 32..126, 128..255
IsHeaderValueByte(b) == b = 9 \/ (b >= 32 /\ b <= 255 /\ b # 127)

\* HeaderValue::to_str: Ok only when every byte is visible ASCII or tab
to_str(v) ==
    IF \A i \in 1..Len(v) : v[i] = 9 \/ (v[i] >= 32 /\ v[i] < 127)
    THEN Ok(v) ELSE Err

\* HeaderMap::get(name): the first value stored under name
headers_get(h, name) ==
    IF \E i \in 1..Len(h) : h[i][1] = name
    THEN LET i == CHOOSE i \in 1..Len(h) :
                      /\ h[i][1] = name
                      /\ \A j \in 1..(i - 1) : h[j][1] # name
         IN Some(h[i][2])
    ELSE None

-----------------------------------------------------------------------------
(* proxy_handler: body capture and bearer key check *)

\* the limit handed to body::to_bytes
MaxBodyBytes == 8 * 1024 * 1024

\* "Bearer "
BearerPrefix == <<66, 101, 97, 114, 101, 114, 32>>

\* "text/plain; charset=utf-8"
TextPlainUtf8 ==
    <<116, 101, 120, 116, 47, 112, 108, 97, 105, 110, 59, 32,
      99, 104, 97, 114, 115, 101, 116, 61, 117, 116, 102, 45, 56>>

\* variant of to_bytes: a body of exactly limit bytes is refused
to_bytes_exclusive(body, limit, streamOk) ==
    IF streamOk /\ body.len < limit THEN Ok(body) ELSE Err

\* body::to_bytes(body, limit): the whole body, or an error when the stream
\* fails or yields more than limit bytes
to_bytes(body, limit, streamOk) ==
    IF streamOk /\ body.len <= limit THEN Ok(body) ELSE Err

\* the nested if-lets of the bearer key check
bearer_key_valid(headers, valid_keys) ==
    LET auth == headers_get(headers, "authorization") IN
    /\ auth.some
    /\ LET auth_str == to_str(auth.val) IN
       /\ auth_str.ok
       /\ LET key == strip_prefix(auth_str.val, BearerPrefix) IN
          /\ key.some
          /\ contains(valid_keys, key.val)

\* (StatusCode, &'static str)::into_response
into_response(status, data, len) ==
    [status  |-> status,
     headers |-> << <<"content-type", TextPlainUtf8>> >>,
     body    |-> [len |-> len, data |-> data]]

BadRequest == into_response(400, "Failed to read body", 19)
Unauthorized == into_response(401, "Unauthorized", 12)

-----------------------------------------------------------------------------
(* forward_request: the outbound request *)

\* "GET"
MethodGET == <<71, 69, 84>>

\* http's method token bytes: ALPHA, DIGIT and ! # $ % & ' * + - . ^ _ ` | ~
IsMethodByte(b) ==
    \/ (b >= 65 /\ b <= 90) \/ (b >= 97 /\ b <= 122) \/ (b >= 48 /\ b <= 57)
    \/ b \in {33, 35, 36, 37, 38, 39, 42, 43, 45, 46, 94, 95, 96, 124, 126}

\* reqwest::Method::from_bytes
method_from_bytes(b) ==
    IF Len(b) > 0 /\ \A i \in 1..Len(b) : IsMethodByte(b[i]) THEN Ok(b) ELSE Err

\* from_bytes(method.as_str().as_bytes()).unwrap_or(GET)
reqwest_method(method) ==
    LET r == method_from_bytes(method) IN IF r.ok THEN r.val ELSE MethodGET

\* variant of outbound_url: the base URL is used untrimmed
outbound_url_untrimmed(ollama_url, path) ==
    ollama_url \o <<47, 118, 49, 47>> \o path

\* format!("{}/v1/{}", ollama_url.trim_end_matches('/'), path)
outbound_url(ollama_url, path) ==
    trim_end_matches(ollama_url, 47) \o <<47, 118, 49, 47>> \o path

\* variant of outbound_headers: only host is skipped
RECURSIVE outbound_headers_keep_auth(_)
outbound_headers_keep_auth(h) ==
    IF h = <<>> THEN <<>>
    ELSE LET e == Head(h)
             rest == outbound_headers_keep_auth(Tail(h))
         IN IF e[1] = "host" THEN rest
            ELSE IF to_str(e[2]).ok THEN << <<e[1], to_str(e[2]).val>> >> \o rest
            ELSE rest

\* the header loop: skip host and authorization, skip values to_str rejects
RECURSIVE outbound_headers(_)
outbound_headers(h) ==
    IF h = <<>> THEN <<>>
    ELSE LET e == Head(h)
             rest == outbound_headers(Tail(h))
         IN IF e[1] = "host" \/ e[1] = "authorization" THEN rest
            ELSE IF to_str(e[2]).ok THEN << <<e[1], to_str(e[2]).val>> >> \o rest
            ELSE rest

\* the RequestBuilder as it stands when send() is called
build_request(st, method, path, headers, body) ==
    [sent    |-> TRUE,
     method  |-> reqwest_method(method),
     url     |-> outbound_url(st.ollama_url, path),
     headers |-> outbound_headers(headers),
     body    |-> body]

-----------------------------------------------------------------------------
(* forward_request: mapping the upstream's answer *)

\* StatusCode::from_u16
from_u16(n) == IF n >= 100 /\ n < 1000 THEN Ok(n) ELSE Err

\* variant of status_code: an upstream server error is reported as 502
status_code_5xx_as_502(upstream_status) ==
    IF upstream_status >= 500 THEN 502 ELSE upstream_status

\* StatusCode::from_u16(resp.status().as_u16()).unwrap_or(StatusCode::OK)
status_code(upstream_status) ==
    LET r == from_u16(upstream_status) IN IF r.ok THEN r.val ELSE 200

\* the response header loop: keep the values to_str accepts
RECURSIVE response_headers(_)
response_headers(h) ==
    IF h = <<>> THEN <<>>
    ELSE LET e == Head(h)
             rest == response_headers(Tail(h))
         IN IF to_str(e[2]).ok THEN << <<e[1], to_str(e[2]).val>> >> \o rest
            ELSE rest

EmptyBody == [len |-> 0, data |-> ""]

\* resp.bytes().await.unwrap_or_default()
response_bytes(rp, bodyOk) == IF bodyOk THEN rp.body ELSE EmptyBody

\* Response::builder()...body(): an error when a header value is not a
\* legal HeaderValue
builder_ok(hdrs) ==
    \A i \in 1..Len(hdrs) : \A j \in 1..Len(hdrs[i][2]) : IsHeaderValueByte(hdrs[i][2][j])

\* variant of map_upstream: a failed read of the upstream body is reported
\* like a transport failure
map_upstream_body_error_as_502(rp, bodyOk) ==
    LET hdrs == response_headers(rp.headers) IN
    IF ~bodyOk
    THEN [status |-> 502, headers |-> <<>>,
          body |-> [len |-> 23, data |-> "Upstream request failed"]]
    ELSE IF builder_ok(hdrs)
    THEN [status |-> status_code(rp.status), headers |-> hdrs, body |-> rp.body]
    ELSE [status |-> 500, headers |-> <<>>, body |-> EmptyBody]

\* the Ok(resp) arm of the match on req.send().await
map_upstream(rp, bodyOk) ==
    LET hdrs == response_headers(rp.headers) IN
    IF builder_ok(hdrs)
    THEN [status |-> status_code(rp.status), headers |-> hdrs,
          body |-> response_bytes(rp, bodyOk)]
    ELSE [status |-> 500, headers |-> <<>>, body |-> EmptyBody]

\* variant of bad_gateway: the failure is reported as an internal error
bad_gateway_as_500 ==
    [status |-> 500, headers |-> <<>>,
     body |-> [len |-> 23, data |-> "Upstream request failed"]]

\* the Err(err) arm
bad_gateway ==
    [status |-> 502, headers |-> <<>>,
     body |-> [len |-> 23, data |-> "Upstream request failed"]]

-----------------------------------------------------------------------------
(* config.rs: text helpers *)

\* char::is_whitespace: the code points with the Unicode White_Space property
IsSpace(c) ==
    \/ c \in {9, 10, 11, 12, 13, 32, 133, 160, 5760, 8232, 8233, 8239, 8287, 12288}
    \/ (c >= 8192 /\ c <= 8202)

\* a UTF-8 continuation byte, 10xxxxxx
IsContinuation(b) == b >= 128 /\ b < 192

\* the bytes of the first character of a non-empty str
first_char(s) ==
    LET n == IF s[1] < 128 THEN 1 ELSE IF s[1] < 224 THEN 2 ELSE IF s[1] < 240 THEN 3 ELSE 4
    IN SubSeq(s, 1, IF n <= Len(s) THEN n ELSE Len(s))

\* the bytes of the last character of a non-empty str
last_char(s) ==
    LET starts == { i \in 1..Len(s) : ~IsContinuation(s[i]) }
        i == IF starts = {} THEN 1 ELSE CHOOSE i \in starts : \A j \in starts : j <= i
    IN SubSeq(s, i, Len(s))

\* the code point a character's UTF-8 bytes encode
code_point(ch) ==
    IF Len(ch) = 1 THEN ch[1]
    ELSE IF Len(ch) = 2 THEN (ch[1] % 32) * 64 + (ch[2] % 64)
    ELSE IF Len(ch) = 3 THEN (ch[1] % 16) * 4096 + (ch[2] % 64) * 64 + (ch[3] % 64)
    ELSE (ch[1] % 8) * 262144 + (ch[2] % 64) * 4096 + (ch[3] % 64) * 64 + (ch[4] % 64)

RECURSIVE trim_start(_)
trim_start(s) ==
    IF Len(s) > 0 /\ IsSpace(code_point(first_char(s)))
    THEN trim_start(SubSeq(s, Len(first_char(s)) + 1, Len(s)))
    ELSE s

RECURSIVE trim_end(_)
trim_end(s) ==
    IF Len(s) > 0 /\ IsSpace(code_point(last_char(s)))
    THEN trim_end(SubSeq(s, 1, Len(s) - Len(last_char(s))))
    ELSE s

\* str::trim
trim(s) == trim_end(trim_start(s))

\* str::split on a set of delimiter bytes: every piece, the empty ones included
RECURSIVE split(_, _)
split(s, delims) ==
    IF \E i \in 1..Len(s) : s[i] \in delims
    THEN LET i == CHOOSE i \in 1..Len(s) :
                      s[i] \in delims /\ \A j \in 1..(i - 1) : s[j] \notin delims
         IN <<SubSeq(s, 1, i - 1)>> \o split(SubSeq(s, i + 1, Len(s)), delims)
    ELSE <<s>>

\* .map(|s| s.trim().to_string()).filter(|s| !s.is_empty()).collect()
RECURSIVE trimmed_nonempty(_)
trimmed_nonempty(pieces) ==
    IF pieces = <<>> THEN <<>>
    ELSE LET t == trim(Head(pieces)) IN
         IF t = <<>> THEN trimmed_nonempty(Tail(pieces))
         ELSE <<t>> \o trimmed_nonempty(Tail(pieces))

IsDigit(b) == b >= 48 /\ b <= 57

\* the value of a run of decimal digits; a value already past 16 bits is
\* left as it is, which keeps it past 16 bits and within the checker's integers
RECURSIVE decimal(_)
decimal(s) ==
    IF s = <<>> THEN 0
    ELSE LET hi == decimal(SubSeq(s, 1, Len(s) - 1)) IN
         IF hi >= 65536 THEN hi ELSE 10 * hi + (s[Len(s)] - 48)

\* str::parse::<u16>: an optional '+', then digits, the value within 16 bits
parse_u16(s) ==
    LET d == IF Len(s) > 0 /\ s[1] = 43 THEN Tail(s) ELSE s IN
    IF Len(d) > 0 /\ (\A i \in 1..Len(d) : IsDigit(d[i])) /\ decimal(d) < 65536
    THEN Ok(decimal(d)) ELSE Err

\* an IPv4 literal: four decimal octets without leading zeros
IsIpv4(host) ==
    LET parts == split(host, {46}) IN
    /\ Len(parts) = 4
    /\ \A i \in 1..4 :
          /\ Len(parts[i]) \in 1..3
          /\ \A j \in 1..Len(parts[i]) : IsDigit(parts[i][j])
          /\ decimal(parts[i]) <= 255
          /\ (Len(parts[i]) > 1 => parts[i][1] # 48)

IsHexDigit(b) == IsDigit(b) \/ (b >= 65 /\ b <= 70) \/ (b >= 97 /\ b <= 102)

RECURSIVE hexadecimal(_)
hexadecimal(s) ==
    IF s = <<>> THEN 0
    ELSE LET b == s[Len(s)]
             v == IF IsDigit(b) THEN b - 48 ELSE IF b >= 97 THEN b - 87 ELSE b - 55
         IN 16 * hexadecimal(SubSeq(s, 1, Len(s) - 1)) + v

\* one 16-bit group of an IPv6 literal: one to four hex digits
IsGroup(g) == Len(g) \in 1..4 /\ \A i \in 1..Len(g) : IsHexDigit(g[i])

\* the 16-bit segments of a ':'-separated run of groups; with v4 the run may
\* end in a dotted quad, which fills two segments
RECURSIVE segments(_, _)
segments(pieces, v4) ==
    IF pieces = <<>> THEN Ok(<<>>)
    ELSE IF Len(pieces) = 1 /\ v4 /\ IsIpv4(pieces[1])
    THEN LET o == split(pieces[1], {46}) IN
         Ok(<<decimal(o[1]) * 256 + decimal(o[2]), decimal(o[3]) * 256 + decimal(o[4])>>)
    ELSE IF IsGroup(pieces[1])
    THEN LET rest == segments(Tail(pieces), v4) IN
         IF rest.ok THEN Ok(<<hexadecimal(pieces[1])>> \o rest.val) ELSE Err
    ELSE Err

\* str::parse::<Ipv6Addr>: eight segments, or fewer around one "::"
parse_ipv6(s) ==
    LET gaps == { i \in 1..(Len(s) - 1) : s[i] = 58 /\ s[i + 1] = 58 } IN
    IF gaps = {}
    THEN LET all == IF s = <<>> THEN Err ELSE segments(split(s, {58}), TRUE) IN
         IF all.ok /\ Len(all.val) = 8 THEN all ELSE Err
    ELSE LET i == CHOOSE i \in gaps : \A j \in gaps : i <= j
             front == SubSeq(s, 1, i - 1)
             back == SubSeq(s, i + 2, Len(s))
             head == IF front = <<>> THEN Ok(<<>>) ELSE segments(split(front, {58}), FALSE)
             tail == IF back = <<>> THEN Ok(<<>>) ELSE segments(split(back, {58}), TRUE)
         IN IF head.ok /\ tail.ok /\ Len(head.val) + Len(tail.val) <= 7
            THEN Ok(head.val \o [k \in 1..(8 - Len(head.val) - Len(tail.val)) |-> 0]
                             \o tail.val)
            ELSE Err

RECURSIVE to_decimal(_)
to_decimal(n) == IF n < 10 THEN <<48 + n>> ELSE to_decimal(n \div 10) \o <<48 + (n % 10)>>

\* {:x}
RECURSIVE to_hex(_)
to_hex(n) ==
    LET d == n % 16
        c == IF d < 10 THEN 48 + d ELSE 87 + d
    IN IF n < 16 THEN <<c>> ELSE to_hex(n \div 16) \o <<c>>

\* segments in lower-case hex, ':' between them
RECURSIVE join_hex(_)
join_hex(segs) ==
    IF segs = <<>> THEN <<>>
    ELSE IF Len(segs) = 1 THEN to_hex(segs[1])
    ELSE to_hex(segs[1]) \o <<58>> \o join_hex(Tail(segs))

\* Display for Ipv6Addr: "::ffff:a.b.c.d" for an IPv4-mapped address,
\* otherwise the first longest run of two or more zero segments as "::"
ipv6_to_string(segs) ==
    LET run(i) == IF segs[i] # 0 THEN 0
                  ELSE CHOOSE n \in 1..(9 - i) :
                          /\ \A k \in i..(i + n - 1) : segs[k] = 0
                          /\ (i + n > 8 \/ segs[i + n] # 0)
        longest == CHOOSE n \in 0..8 :
                      (\E i \in 1..8 : run(i) = n) /\ \A i \in 1..8 : run(i) <= n
        start == CHOOSE i \in 1..8 :
                    run(i) = longest /\ \A j \in 1..(i - 1) : run(j) < longest
    IN IF segs = <<0, 0, 0, 0, 0, 0, 0, 0>> THEN <<58, 58>>
       ELSE IF segs = <<0, 0, 0, 0, 0, 0, 0, 1>> THEN <<58, 58, 49>>
       ELSE IF SubSeq(segs, 1, 6) = <<0, 0, 0, 0, 0, 65535>>
       THEN <<58, 58, 102, 102, 102, 102, 58>>
            \o to_decimal(segs[7] \div 256) \o <<46>> \o to_decimal(segs[7] % 256) \o <<46>>
            \o to_decimal(segs[8] \div 256) \o <<46>> \o to_decimal(segs[8] % 256)
       ELSE IF longest > 1
       THEN join_hex(SubSeq(segs, 1, start - 1)) \o <<58, 58>>
            \o join_hex(SubSeq(segs, start + longest, 8))
       ELSE join_hex(segs)

RECURSIVE trim_zeros(_)
trim_zeros(d) == IF Len(d) > 1 /\ d[1] = 48 THEN trim_zeros(Tail(d)) ELSE d

\* str order on two digit runs of one length
RECURSIVE digits_le(_, _)
digits_le(a, b) ==
    IF a = <<>> THEN TRUE
    ELSE IF a[1] # b[1] THEN a[1] < b[1]
    ELSE digits_le(Tail(a), Tail(b))

\* a run of decimal digits whose value is at most u32::MAX, 4294967295
IsU32(d) ==
    /\ Len(d) > 0
    /\ \A i \in 1..Len(d) : IsDigit(d[i])
    /\ LET n == trim_zeros(d) IN
       \/ Len(n) < 10
       \/ Len(n) = 10 /\ digits_le(n, <<52, 50, 57, 52, 57, 54, 55, 50, 57, 53>>)

\* the address between the brackets of "[addr]" or "[addr%scope]", the
\* scope id a decimal u32
parse_bracketed(host) ==
    LET inner == SubSeq(host, 2, Len(host) - 1)
        parts == split(inner, {37})
        scoped == Len(parts) = 2 /\ IsU32(parts[2])
    IN IF Len(host) >= 2 /\ host[1] = 91 /\ host[Len(host)] = 93
          /\ (Len(parts) = 1 \/ scoped)
       THEN parse_ipv6(parts[1])
       ELSE Err

\* format!("{}:{}", host, port).parse::<SocketAddr>(); ip is the text of
\* SocketAddr::ip().to_string()
parse_socket_addr(host, port) ==
    IF IsIpv4(host) THEN Ok([ip |-> host, port |-> port])
    ELSE IF parse_bracketed(host).ok
    THEN Ok([ip |-> ipv6_to_string(parse_bracketed(host).val), port |-> port])
    ELSE Err

-----------------------------------------------------------------------------
(* config.rs: the key sources *)

\* the files of the machine: "keys.txt" holds "k1\r\n k2 ,,K1\n"
Files ==
    [p \in {"keys.txt"} |->
        <<107, 49, 13, 10, 32, 107, 50, 32, 44, 44, 75, 49, 10>>]

\* the SQLite databases of the machine: "keys.db" has table api_keys with
\* rows "x", "y"
Databases == [p \in {"keys.db"} |-> << <<120>>, <<121>> >>]

\* fs::read_to_string
read_to_string(path) == IF path \in DOMAIN Files THEN Ok(Files[path]) ELSE Err

load_keys_from_file(path) ==
    LET content == read_to_string(path) IN
    IF content.ok
    THEN Ok(trimmed_nonempty(split(content.val, {44, 10, 13})))
    ELSE Err

load_keys_from_sqlite(path) ==
    IF path \in DOMAIN Databases THEN Ok(Databases[path]) ELSE Err

\* "http://127.0.0.1:11434"
DefaultOllamaUrl ==
    <<104, 116, 116, 112, 58, 47, 47, 49, 50, 55, 46, 48, 46, 48, 46, 49,
      58, 49, 49, 52, 51, 52>>

\* "0.0.0.0"
DefaultProxyHost == <<48, 46, 48, 46, 48, 46, 48>>

DefaultProxyPort == 3000

\* Option::unwrap_or
unwrap_or(o, d) == IF o.some THEN o.val ELSE d

\* AppConfig::load
load(e) ==
    LET ollama_url == unwrap_or(e.OLLAMA_URL, DefaultOllamaUrl)
        proxy_host == unwrap_or(e.PROXY_HOST, DefaultProxyHost)
        proxy_port == IF e.PROXY_PORT.some /\ parse_u16(e.PROXY_PORT.val).ok
                      THEN parse_u16(e.PROXY_PORT.val).val
                      ELSE DefaultProxyPort
        proxy_addr == parse_socket_addr(proxy_host, proxy_port)
        valid_keys == IF e.API_KEYS_SQLITE.some
                      THEN load_keys_from_sqlite(e.API_KEYS_SQLITE.val)
                      ELSE IF e.API_KEYS_FILE.some
                      THEN load_keys_from_file(e.API_KEYS_FILE.val)
                      ELSE Ok(trimmed_nonempty(split(unwrap_or(e.API_KEYS, <<>>), {44})))
    IN IF proxy_addr.ok /\ valid_keys.ok
       THEN Ok([loaded |-> TRUE, valid_keys |-> valid_keys.val,
                ollama_url |-> ollama_url, proxy_addr |-> proxy_addr.val])
       ELSE Err

\* ConfigOverrides::default
DefaultOverrides ==
    [ollama_url |-> None, proxy_host |-> None, proxy_port |-> None,
     api_keys_sqlite |-> None, api_keys_file |-> None, api_keys |-> None]

\* the api key overrides of apply_overrides: sqlite, else file, else the list
override_keys(o) ==
    IF o.api_keys_sqlite.some THEN load_keys_from_sqlite(o.api_keys_sqlite.val)
    ELSE IF o.api_keys_file.some THEN load_keys_from_file(o.api_keys_file.val)
    ELSE IF o.api_keys.some THEN Ok(o.api_keys.val)
    ELSE Ok(<<>>)

\* AppConfig::apply_overrides: the fields of self are assigned one after the
\* other, so a failure leaves in self what was assigned before it. A failing
\* result carries that self, and panic tells the panic of
\* expect("valid socket addr from overrides") from the Err of a key source
apply_overrides(c, o) ==
    LET withUrl == [c EXCEPT !.ollama_url = unwrap_or(o.ollama_url, c.ollama_url)]
        addr == IF o.proxy_host.some \/ o.proxy_port.some
                THEN parse_socket_addr(unwrap_or(o.proxy_host, c.proxy_addr.ip),
                                       unwrap_or(o.proxy_port, c.proxy_addr.port))
                ELSE Ok(c.proxy_addr)
        withAddr == [withUrl EXCEPT !.proxy_addr = addr.val]
        keys == IF o.api_keys_sqlite.some \/ o.api_keys_file.some \/ o.api_keys.some
                THEN override_keys(o)
                ELSE Ok(c.valid_keys)
    IN IF ~addr.ok THEN [ok |-> FALSE, panic |-> TRUE, self |-> withUrl]
       ELSE IF ~keys.ok THEN [ok |-> FALSE, panic |-> FALSE, self |-> withAddr]
       ELSE Ok([withAddr EXCEPT !.valid_keys = keys.val])

\* AppState::new (the pooled client carries no application state)
AppState_new(c) == [built |-> TRUE, valid_keys |-> c.valid_keys, ollama_url |-> c.ollama_url]

-----------------------------------------------------------------------------
(* Inputs *)

\* "k1" and "K1": the same key up to letter case
KeyLower == <<107, 49>>
KeyUpper == <<75, 49>>

\* "cli"
KeyCli == <<99, 108, 105>>

\* inbound headers: authorization "Bearer k1", "Bearer K1", "bearer k1" and
\* "Bearer " followed by a non-text byte; host "h"; accept "a"; x-bin with a
\* non-text byte
InboundHeaders ==
    { <<"authorization", BearerPrefix \o KeyLower>>,
      <<"authorization", BearerPrefix \o KeyUpper>>,
      <<"authorization", <<98, 101, 97, 114, 101, 114, 32>> \o KeyLower>>,
      <<"authorization", BearerPrefix \o <<200>> >>,
      <<"host", <<104>> >>,
      <<"accept", <<97>> >>,
      <<"x-bin", <<200>> >> }

HeaderLists(candidates, n) == UNION { [1..k -> candidates] : k \in 0..n }

\* "POST", and the extension method "PURGE"
Methods == { <<80, 79, 83, 84>>, <<80, 85, 82, 71, 69>> }

\* "test", "a/b"
Paths == { <<116, 101, 115, 116>>, <<97, 47, 98>> }

SmallBody == [len |-> 5, data |-> "hello"]
FullBody == [len |-> MaxBodyBytes, data |-> "full"]
OverBody == [len |-> MaxBodyBytes + 1, data |-> "over"]

Requests ==
    [present : {TRUE}, method : Methods, path : Paths,
     headers : HeaderLists(InboundHeaders, MaxHeaders),
     body : {SmallBody, FullBody, OverBody}]

\* the requests of the concurrent specification
ConcRequests ==
    [present : {TRUE}, method : {MethodGET}, path : { <<116, 101, 115, 116>> },
     headers : HeaderLists({ <<"authorization", BearerPrefix \o KeyLower>>,
                             <<"authorization", BearerPrefix \o KeyUpper>>,
                             <<"accept", <<97>> >> }, 1),
     body : {FullBody, OverBody}]

\* upstream response headers: content-type "a"; x-bin with a non-text byte
UpstreamHeaders == { <<"content-type", <<97>> >>, <<"x-bin", <<200>> >> }

BigBody == [len |-> MaxBodyBytes + 1, data |-> "big"]

Replies ==
    [kind : {"ok"}, status : {200, 404, 500},
     headers : HeaderLists(UpstreamHeaders, MaxRespHeaders),
     body : {[len |-> 2, data |-> "ok"], BigBody}, bodyRead : {"pending"}]

ConcReplies ==
    [kind : {"ok"}, status : {200, 500}, headers : {<<>>},
     body : {[len |-> 2, data |-> "ok"]}, bodyRead : {"pending"}]

TransportFailure == [kind |-> "err"]

NoEnv ==
    [API_KEYS_SQLITE |-> None, API_KEYS_FILE |-> None, API_KEYS |-> None,
     OLLAMA_URL |-> None, PROXY_HOST |-> None, PROXY_PORT |-> None]

\* API_KEYS unset, "k1" or "K1,k1"; OLLAMA_URL unset or "http://u/"
ServeEnvs ==
    { [NoEnv EXCEPT !.API_KEYS = k, !.OLLAMA_URL = u] :
        k \in {None, Some(KeyLower), Some(<<75, 49, 44, 107, 49>>)},
        u \in {None, Some(<<104, 116, 116, 112, 58, 47, 47, 117, 47>>)} }

\* API_KEYS unset or "k1"
ConcEnvs == { [NoEnv EXCEPT !.API_KEYS = k] : k \in {None, Some(KeyLower)} }

\* the environments and command lines of the configuration specification:
\* paths that exist and paths that do not, "a\u{a0},b, c" as API_KEYS,
\* "http://e/" and "http://o" as URLs, "127.0.0.1", "[::1]" and "bogus" as
\* hosts, "008080" and "80x" as PROXY_PORT
ConfigEnvs ==
    [API_KEYS_SQLITE : {None, Some("keys.db"), Some("none.db")},
     API_KEYS_FILE : {None, Some("keys.txt"), Some("none.txt")},
     API_KEYS : {None, Some(<<97, 194, 160, 44, 98, 44, 32, 99>>)},
     OLLAMA_URL : {None, Some(<<104, 116, 116, 112, 58, 47, 47, 101, 47>>)},
     PROXY_HOST : {None, Some(<<49, 50, 55, 46, 48, 46, 48, 46, 49>>),
                   Some(<<91, 58, 58, 49, 93>>), Some(<<98, 111, 103, 117, 115>>)},
     PROXY_PORT : {None, Some(<<48, 48, 56, 48, 56, 48>>), Some(<<56, 48, 120>>)}]

ConfigOverrides ==
    [ollama_url : {None, Some(<<104, 116, 116, 112, 58, 47, 47, 111>>)},
     proxy_host : {None, Some(<<98, 111, 103, 117, 115>>)},
     proxy_port : {None, Some(1234)},
     api_keys_sqlite : {None, Some("keys.db"), Some("none.db")},
     api_keys_file : {None, Some("keys.txt"), Some("none.txt")},
     api_keys : {None, Some(<<KeyCli>>), Some(<<>>)}]

-----------------------------------------------------------------------------
(* main *)

Slots == DOMAIN pc

\* AppConfig::load().expect(...)
MainLoad ==
    /\ mainpc = "start"
    /\ LET c == load(env) IN
       IF c.ok
       THEN cfg' = c.val /\ mainpc' = "loaded"
       ELSE cfg' = cfg /\ mainpc' = "panicked"
    /\ UNCHANGED <<state, env, overrides, proxyVars>>

\* config.apply_overrides(&overrides).expect(...)
MainApplyOverrides ==
    /\ mainpc = "loaded"
    /\ LET c == apply_overrides(cfg, overrides) IN
       IF c.ok
       THEN cfg' = c.val /\ mainpc' = "configured"
       ELSE cfg' = c.self /\ mainpc' = "panicked"
    /\ UNCHANGED <<state, env, overrides, proxyVars>>

\* AppState::new(&config), Router::with_state(state), then
\* Server::bind(addr).serve(..).await.unwrap(): the state is built before the
\* listener is bound, and a bind that fails ends main in a panic
MainServe(bindOk) ==
    /\ mainpc = "configured"
    /\ state' = AppState_new(cfg)
    /\ mainpc' = IF bindOk THEN "serving" ELSE "panicked"
    /\ UNCHANGED <<env, overrides, cfg, proxyVars>>

-----------------------------------------------------------------------------
(* One task per inbound request *)

\* the handler returns `response`
Respond(r, response) ==
    /\ resp' = [resp EXCEPT ![r] = response]
    /\ nresp' = [nresp EXCEPT ![r] = @ + 1]
    /\ pc' = [pc EXCEPT ![r] = "done"]

\* the router hands a request of `inbound` to proxy_handler, which runs up to
\* the await on body::to_bytes
HandlerStart(r, inbound) ==
    /\ mainpc = "serving"
    /\ pc[r] = "idle"
    /\ \E q \in inbound : req' = [req EXCEPT ![r] = q]
    /\ pc' = [pc EXCEPT ![r] = "read_body"]
    /\ UNCHANGED <<state, stream, out, calls, reply, resp, nresp, configVars>>

\* variant of HandlerBody: a key is removed from the shared state once used
HandlerBodyConsumingKey(r, streamOk) ==
    /\ pc[r] = "read_body"
    /\ stream' = [stream EXCEPT ![r] = IF streamOk THEN "complete" ELSE "broken"]
    /\ LET body_bytes == to_bytes(req[r].body, MaxBodyBytes, streamOk) IN
       IF ~body_bytes.ok
       THEN Respond(r, BadRequest) /\ UNCHANGED <<state, out, calls>>
       ELSE IF bearer_key_valid(req[r].headers, state.valid_keys)
       THEN /\ out' = [out EXCEPT ![r] =
                          build_request(state, req[r].method, req[r].path,
                                        req[r].headers, body_bytes.val)]
            /\ calls' = [calls EXCEPT ![r] = @ + 1]
            /\ pc' = [pc EXCEPT ![r] = "sending"]
            /\ state' = [state EXCEPT !.valid_keys = <<>>]
            /\ UNCHANGED <<resp, nresp>>
       ELSE Respond(r, Unauthorized) /\ UNCHANGED <<state, out, calls>>
    /\ UNCHANGED <<req, reply, configVars>>

\* to_bytes resolves; the key check; forward_request up to the await on send()
HandlerBody(r, streamOk) ==
    /\ pc[r] = "read_body"
    /\ stream' = [stream EXCEPT ![r] = IF streamOk THEN "complete" ELSE "broken"]
    /\ LET body_bytes == to_bytes(req[r].body, MaxBodyBytes, streamOk) IN
       IF ~body_bytes.ok
       THEN Respond(r, BadRequest) /\ UNCHANGED <<out, calls>>
       ELSE IF bearer_key_valid(req[r].headers, state.valid_keys)
       THEN /\ out' = [out EXCEPT ![r] =
                          build_request(state, req[r].method, req[r].path,
                                        req[r].headers, body_bytes.val)]
            /\ calls' = [calls EXCEPT ![r] = @ + 1]
            /\ pc' = [pc EXCEPT ![r] = "sending"]
            /\ UNCHANGED <<resp, nresp>>
       ELSE Respond(r, Unauthorized) /\ UNCHANGED <<out, calls>>
    /\ UNCHANGED <<state, req, reply, configVars>>

\* send() resolves to Ok(resp), an answer of `answers`: status and headers
\* are copied, then the task awaits resp.bytes()
SendOk(r, answers) ==
    /\ pc[r] = "sending"
    /\ \E rp \in answers : reply' = [reply EXCEPT ![r] = rp]
    /\ pc' = [pc EXCEPT ![r] = "read_response"]
    /\ UNCHANGED <<state, req, stream, out, calls, resp, nresp, configVars>>

\* variant of SendErr: the call is issued again after a transport failure
SendErrRetrying(r) ==
    /\ pc[r] = "sending"
    /\ calls[r] < 3
    /\ calls' = [calls EXCEPT ![r] = @ + 1]
    /\ UNCHANGED <<state, pc, req, stream, out, reply, resp, nresp, configVars>>

\* send() resolves to Err(err)
SendErr(r) ==
    /\ pc[r] = "sending"
    /\ reply' = [reply EXCEPT ![r] = TransportFailure]
    /\ Respond(r, bad_gateway)
    /\ UNCHANGED <<state, req, stream, out, calls, configVars>>

\* resp.bytes() resolves; the response is assembled
ReadResponse(r, bodyOk) ==
    /\ pc[r] = "read_response"
    /\ reply' = [reply EXCEPT ![r].bodyRead = IF bodyOk THEN "ok" ELSE "err"]
    /\ Respond(r, map_upstream(reply[r], bodyOk))
    /\ UNCHANGED <<state, req, stream, out, calls, configVars>>

-----------------------------------------------------------------------------
(* Specifications *)

InitWith(envs, ovs, slots) ==
    /\ env \in envs
    /\ overrides \in ovs
    /\ cfg = NoCfg
    /\ mainpc = "start"
    /\ state = NotBuilt
    /\ pc = [r \in slots |-> "idle"]
    /\ req = [r \in slots |-> NoReq]
    /\ stream = [r \in slots |-> "pending"]
    /\ out = [r \in slots |-> NoOut]
    /\ calls = [r \in slots |-> 0]
    /\ reply = [r \in slots |-> NoReply]
    /\ resp = [r \in slots |-> NoResp]
    /\ nresp = [r \in slots |-> 0]

Main == MainLoad \/ MainApplyOverrides \/ \E bindOk \in BOOLEAN : MainServe(bindOk)

\* one request, every input
Init == InitWith(ServeEnvs, {DefaultOverrides}, {1})

Next ==
    \/ Main
    \/ \E r \in Slots : HandlerStart(r, Requests)
    \/ \E r \in Slots, streamOk \in BOOLEAN : HandlerBody(r, streamOk)
    \/ \E r \in Slots : SendOk(r, Replies)
    \/ \E r \in Slots : SendErr(r)
    \/ \E r \in Slots, bodyOk \in BOOLEAN : ReadResponse(r, bodyOk)

Spec == Init /\ [][Next]_vars

\* NumRequests concurrent requests
InitConc == InitWith(ConcEnvs, {DefaultOverrides}, 1..NumRequests)

NextConc ==
    \/ Main
    \/ \E r \in Slots : HandlerStart(r, ConcRequests)
    \/ \E r \in Slots, streamOk \in BOOLEAN : HandlerBody(r, streamOk)
    \/ \E r \in Slots : SendOk(r, ConcReplies)
    \/ \E r \in Slots : SendErr(r)
    \/ \E r \in Slots, bodyOk \in BOOLEAN : ReadResponse(r, bodyOk)

SpecConc == InitConc /\ [][NextConc]_vars

\* startup alone, every environment and command line
InitConfig == InitWith(ConfigEnvs, ConfigOverrides, {})

SpecConfig == InitConfig /\ [][Main]_vars

-----------------------------------------------------------------------------
(* Vocabulary of the properties *)

\* a header value that is text: every byte is tab or printable ASCII
IsText(v) == \A i \in 1..Len(v) : v[i] \in (32..126) \cup {9}

Count(seq, e) == Cardinality({ i \in 1..Len(seq) : seq[i] = e })

Entries(seq) == { seq[i] : i \in 1..Len(seq) }

\* request r carries no authorization header
NoAuthHeader(r) ==
    /\ req[r].present
    /\ \A i \in 1..Len(req[r].headers) : req[r].headers[i][1] # "authorization"

\* the value of r's (first) authorization header is "Bearer " followed by k
BearerOf(r, k) ==
    /\ req[r].present
    /\ \E i \in 1..Len(req[r].headers) :
        /\ req[r].headers[i] = <<"authorization", BearerPrefix \o k>>
        /\ \A j \in 1..(i - 1) : req[r].headers[j][1] # "authorization"

\* r presents a key of the configured key set
ValidKey(r) ==
    /\ state.built
    /\ \E i \in 1..Len(state.valid_keys) : BearerOf(r, state.valid_keys[i])

\* r presents a bearer token that is no key of the configured key set
UnknownKey(r) ==
    /\ state.built
    /\ req[r].present
    /\ \E i \in 1..Len(req[r].headers) :
        /\ req[r].headers[i][1] = "authorization"
        /\ \A j \in 1..(i - 1) : req[r].headers[j][1] # "authorization"
        /\ StartsWith(req[r].headers[i][2], BearerPrefix)
        /\ \A n \in 1..Len(state.valid_keys) :
              req[r].headers[i][2] # BearerPrefix \o state.valid_keys[n]

\* the inbound body of r was read in full within the limit
BodyRead(r) == stream[r] = "complete" /\ req[r].body.len <= MaxBodyBytes

\* the handler of r is past the body read
PastBody(r) == pc[r] \in {"sending", "read_response", "done"}

\* the upstream base URL without its trailing slashes
BaseUrl ==
    LET u == state.ollama_url
        n == CHOOSE n \in 0..Len(u) :
                 /\ n = 0 \/ u[n] # 47
                 /\ \A i \in (n + 1)..Len(u) : u[i] = 47
    IN SubSeq(u, 1, n)

-----------------------------------------------------------------------------
(* Properties *)

\* C1: every handled request without an authorization header, whatever the
\* size of the body it delivered, is answered 401 and causes no outbound call.
CE_C1_MissingHeaderAlways401 ==
    \A r \in Slots :
        (pc[r] = "done" /\ stream[r] = "complete" /\ NoAuthHeader(r)) =>
            (resp[r].status = 401 /\ calls[r] = 0)

\* C2: every handled request whose authorization header is "Bearer k" with k
\* not in the key set, whatever the size of the body it delivered, is answered
\* 401 and causes no outbound call.
CE_C2_UnknownKeyAlways401 ==
    \A r \in Slots :
        (pc[r] = "done" /\ stream[r] = "complete" /\ UnknownKey(r)) =>
            (resp[r].status = 401 /\ calls[r] = 0)

\* C3: a request with a valid key whose body was read is forwarded, and the
\* outbound call has target <base URL>/v1/<captured suffix>, the inbound
\* method and the inbound body; the base URL is taken without trailing slashes.
Thm_C3_OutboundTarget ==
    \A r \in Slots :
        /\ (PastBody(r) /\ ValidKey(r) /\ BodyRead(r)) => out[r].sent
        /\ out[r].sent =>
              /\ ValidKey(r)
              /\ out[r].url = BaseUrl \o <<47, 118, 49, 47>> \o req[r].path
              /\ (state.ollama_url = BaseUrl =>
                     out[r].url = state.ollama_url \o <<47, 118, 49, 47>> \o req[r].path)
              /\ out[r].method = req[r].method
              /\ out[r].body = req[r].body

\* C3 witness: an extension-method request with a full-size body is forwarded
\* under a base URL configured with a trailing slash.
Wit_C3_Forwarded ==
    \E r \in Slots :
        /\ out[r].sent
        /\ req[r].method = <<80, 85, 82, 71, 69>>
        /\ req[r].path = <<97, 47, 98>>
        /\ req[r].body = FullBody
        /\ state.ollama_url # BaseUrl
        /\ out[r].url = <<104, 116, 116, 112, 58, 47, 47, 117, 47, 118, 49, 47, 97, 47, 98>>

\* C4: the outbound headers of a forwarded request hold no host and no
\* authorization header, hold every other inbound header with a text value
\* (as often as it came in) and nothing else; a header with a non-text value
\* is left out and the request is forwarded all the same.
Thm_C4_OutboundHeaders ==
    \A r \in Slots :
        /\ (PastBody(r) /\ ValidKey(r) /\ BodyRead(r)) => out[r].sent
        /\ out[r].sent =>
              \A e \in Entries(req[r].headers) \cup Entries(out[r].headers) :
                  Count(out[r].headers, e) =
                      IF e[1] \in {"host", "authorization"} \/ ~IsText(e[2])
                      THEN 0
                      ELSE Count(req[r].headers, e)

\* C4 witness: a forwarded request that came with a non-text header value.
Wit_C4_NonTextDropped ==
    \E r \in Slots :
        /\ out[r].sent
        /\ \E i \in 1..Len(req[r].headers) :
              req[r].headers[i][1] = "x-bin" /\ ~IsText(req[r].headers[i][2])
        /\ out[r].headers = <<>>
        /\ pc[r] = "done" /\ resp[r].status = 200

\* C5: when the upstream answers with status S, headers H and body B, the
\* client-facing response has status S (4xx and 5xx included), exactly the
\* headers of H whose value is text, and, the body having been read, body B.
Thm_C5_ResponseRelayed ==
    \A r \in Slots :
        (pc[r] = "done" /\ reply[r].kind = "ok") =>
            /\ resp[r].status = reply[r].status
            /\ \A e \in Entries(reply[r].headers) \cup Entries(resp[r].headers) :
                  Count(resp[r].headers, e) =
                      IF IsText(e[2]) THEN Count(reply[r].headers, e) ELSE 0
            /\ reply[r].bodyRead = "ok" => resp[r].body = reply[r].body

\* C5 witness: an upstream 500 with a non-text header and a body larger than
\* the inbound limit has been relayed.
Wit_C5_ErrorStatusRelayed ==
    \E r \in Slots :
        /\ pc[r] = "done" /\ reply[r].kind = "ok" /\ reply[r].bodyRead = "ok"
        /\ reply[r].status = 500
        /\ reply[r].headers = << <<"x-bin", <<200>> >> >>
        /\ reply[r].body = BigBody
        /\ resp[r] = [status |-> 500, headers |-> <<>>, body |-> BigBody]

\* C6: a forwarded request whose outbound call fails in transport is answered
\* 502 with body "Upstream request failed", after exactly one outbound call.
Thm_C6_TransportFailure502 ==
    \A r \in Slots :
        reply[r].kind = "err" =>
            /\ pc[r] = "done"
            /\ resp[r].status = 502
            /\ resp[r].body = [len |-> 23, data |-> "Upstream request failed"]
            /\ calls[r] = 1
            /\ nresp[r] = 1

\* C6 witness: a valid-key request whose outbound call failed.
Wit_C6_TransportFailure ==
    \E r \in Slots :
        ValidKey(r) /\ out[r].sent /\ reply[r].kind = "err" /\ resp[r].status = 502

\* C7: with a valid key, a body of exactly 8 MiB is forwarded, and a body of
\* 8 MiB + 1 byte is answered 400 without an outbound call.
Thm_C7_BodyLimit ==
    \A r \in Slots :
        (PastBody(r) /\ ValidKey(r)) =>
            /\ (req[r].body.len = 8 * 1024 * 1024 /\ stream[r] = "complete") =>
                   (out[r].sent /\ out[r].body = req[r].body /\ calls[r] = 1)
            /\ req[r].body.len = 8 * 1024 * 1024 + 1 =>
                   (~out[r].sent /\ calls[r] = 0 /\ pc[r] = "done" /\ resp[r].status = 400)

\* C7 witness: of two valid-key requests, the one of exactly 8 MiB has been
\* forwarded and the one a byte larger has been refused.
Wit_C7_BothSidesOfLimit ==
    \E r1, r2 \in Slots :
        /\ ValidKey(r1) /\ req[r1].body.len = 8388608 /\ out[r1].sent
        /\ ValidKey(r2) /\ req[r2].body.len = 8388609 /\ resp[r2].status = 400
        /\ calls[r2] = 0

\* C8: when the command line gives a key list, the configuration main ends
\* up with holds exactly that list, whatever other key sources are given.
CE_C8_ExplicitKeysWin ==
    (mainpc \in {"configured", "serving"} /\ overrides.api_keys.some) =>
        cfg.valid_keys = overrides.api_keys.val

\* C9: a request causes at most one outbound call and, handled, exactly one
\* response; an authorized request whose body was read causes exactly one
\* call, every other request none; no call follows a failure or an error
\* status.
Thm_C9_OneCallOneResponse ==
    \A r \in Slots :
        /\ calls[r] <= 1
        /\ nresp[r] = (IF pc[r] = "done" THEN 1 ELSE 0)
        /\ PastBody(r) =>
              calls[r] = (IF ValidKey(r) /\ BodyRead(r) THEN 1 ELSE 0)
        /\ ~PastBody(r) => calls[r] = 0

\* C9 witness: one request ended in a transport failure and another in an
\* upstream 500, each after a single call.
Wit_C9_FailuresNotRetried ==
    \E r1, r2 \in Slots :
        /\ pc[r1] = "done" /\ reply[r1].kind = "err" /\ calls[r1] = 1 /\ nresp[r1] = 1
        /\ pc[r2] = "done" /\ reply[r2].kind = "ok" /\ reply[r2].status = 500
        /\ calls[r2] = 1 /\ nresp[r2] = 1

\* the responses of two handled requests that are equal, with equal body
\* streams and equal upstream outcomes, are equal
SameInputsSameResponse ==
    \A r1, r2 \in Slots :
        (/\ pc[r1] = "done" /\ pc[r2] = "done"
         /\ req[r1] = req[r2] /\ stream[r1] = stream[r2] /\ reply[r1] = reply[r2])
        => resp[r1] = resp[r2]

\* C10: once built, the AppState (key set, base URL) is changed by no step
\* of any request, and a response depends only on the request, that state
\* and the upstream's reply.
Thm_C10_StateReadOnly ==
    /\ [][mainpc = "serving" => state' = state]_vars
    /\ [](mainpc = "serving" => state = AppState_new(cfg))
    /\ []SameInputsSameResponse

\* C10 witness: two equal authorized requests, handled concurrently with the
\* same upstream answer, and the state is still the one built at startup.
Wit_C10_TwoEqualRequests ==
    \E r1, r2 \in Slots :
        /\ r1 # r2
        /\ pc[r1] = "done" /\ pc[r2] = "done"
        /\ req[r1] = req[r2] /\ ValidKey(r1)
        /\ reply[r1] = reply[r2] /\ reply[r1].kind = "ok"
        /\ resp[r1] = resp[r2]
        /\ state = AppState_new(cfg)

\* C11: when the upstream delivered status and headers but reading its body
\* failed, the response has the upstream's status, the upstream's text
\* headers and an empty body; it is not the 502 of a transport failure.
Thm_C11_BodyReadFailureEmptyBody ==
    \A r \in Slots :
        (pc[r] = "done" /\ reply[r].kind = "ok" /\ reply[r].bodyRead = "err") =>
            /\ resp[r].status = reply[r].status
            /\ \A e \in Entries(reply[r].headers) \cup Entries(resp[r].headers) :
                  Count(resp[r].headers, e) =
                      IF IsText(e[2]) THEN Count(reply[r].headers, e) ELSE 0
            /\ resp[r].body.len = 0
            /\ resp[r].body.data = ""
            /\ resp[r] # [status |-> 502, headers |-> <<>>,
                          body |-> [len |-> 23, data |-> "Upstream request failed"]]
            /\ calls[r] = 1 /\ nresp[r] = 1

\* C11 witness: an upstream 200 with a text header whose body could not be
\* read has been answered 200 with that header and no body.
Wit_C11_BodyReadFailed ==
    \E r \in Slots :
        /\ pc[r] = "done" /\ reply[r].kind = "ok" /\ reply[r].bodyRead = "err"
        /\ reply[r].status = 200
        /\ reply[r].headers = << <<"content-type", <<97>> >> >>
        /\ reply[r].body = BigBody
        /\ resp[r] = [status |-> 200, headers |-> << <<"content-type", <<97>> >> >>,
                      body |-> [len |-> 0, data |-> ""]]

====
